---- MODULE Spec2Model ----
(***************************************************************************)
(* Model of src/main.py: the engine that sorts the files of a folder into  *)
(* date-named subfolders (collect_files, get_file_date,                    *)
(* get_size_folder_name, _unique_dest_path, _same_path, remove_empty_dirs, *)
(* Worker.run) and the part of MainWindow.start_move that builds the file  *)
(* list and starts the worker.                                             *)
(*                                                                         *)
(* A string is a sequence of one-character strings, a path is the sequence *)
(* of its components below the chosen root (the root itself is << >>), and *)
(* the filesystem is a function from the paths that exist to their entry.  *)
(* The tree holds regular files and directories only (no symbolic links),  *)
(* so Path.resolve() maps every path of the model to itself.               *)
(***************************************************************************)
EXTENDS Integers, Sequences, FiniteSets, TLC

\* ------------------------------------------------------------------ bounds
\* Largest number of files in the folder when the user starts the move.
MaxFiles == 3
\* Largest number of files in the folder under a configuration other than the
\* plain one (folders named YYYY_MM_DD, no extension folders, no size folders).
MaxFilesOther == 1
\* Largest number of failing filesystem calls and files vanished before the run.
MaxFaults == 1

\* ------------------------------------------------------- program constants
\* the number of iterations of "for _ in range(1000)" in Worker.run
ProbeCap == 1000

\* ----------------------------------------------------------------- strings
Digits == <<"0", "1", "2", "3", "4", "5", "6", "7", "8", "9">>

\* str(n) in decimal, n >= 0
RECURSIVE DecStr(_)
DecStr(n) ==
    IF n < 10 THEN <<Digits[n + 1]>>
    ELSE DecStr(n \div 10) \o <<Digits[(n % 10) + 1]>>

\* the "0{w}d" format: left-pad with zeros to at least w characters
RECURSIVE ZeroPad(_, _)
ZeroPad(s, w) == IF Len(s) >= w THEN s ELSE ZeroPad(<<"0">> \o s, w)

\* str.upper() on the characters of the model's alphabet
UpperChar(c) ==
    CASE c = "a" -> "A"
      [] c = "b" -> "B"
      [] c = "t" -> "T"
      [] c = "x" -> "X"
      [] OTHER   -> c

Upper(s) == [k \in 1..Len(s) |-> UpperChar(s[k])]

\* str.lstrip(".")
RECURSIVE LStripDot(_)
LStripDot(s) ==
    IF s # <<>> /\ Head(s) = "." THEN LStripDot(Tail(s)) ELSE s

\* str.rfind("."), 1-based; 0 when there is no dot
RFindDot(s) ==
    LET hits == {k \in 1..Len(s) : s[k] = "."}
    IN  IF hits = {} THEN 0 ELSE CHOOSE k \in hits : \A h \in hits : h <= k

\* ------------------------------------------------------------------- paths
Root == <<>>

Join(dir, name) == Append(dir, name)

Parent(p) == SubSeq(p, 1, Len(p) - 1)

Name(p) == p[Len(p)]

IsPrefix(p, q) == Len(p) <= Len(q) /\ SubSeq(q, 1, Len(p)) = p

IsStrictPrefix(p, q) == Len(p) < Len(q) /\ SubSeq(q, 1, Len(p)) = p

\* PurePath.suffix: from the last dot, unless the dot is first or last
Suffix(name) ==
    LET k == RFindDot(name)
    IN  IF 1 < k /\ k < Len(name) THEN SubSeq(name, k, Len(name)) ELSE <<>>

\* PurePath.stem
Stem(name) ==
    LET k == RFindDot(name)
    IN  IF 1 < k /\ k < Len(name) THEN SubSeq(name, 1, k - 1) ELSE name

\* -------------------------------------------------------------- filesystem
\* The filesystem below root is [tree, crowd]. tree maps the paths it lists to
\* their entries. crowd describes, in closed form, a run of further regular
\* files: when crowd.on, directory crowd.dir also holds stem+suffix and
\* stem_001+suffix ... stem_<upto>+suffix. No operation of the program
\* changes these files.
DirEntry == [kind |-> "dir", id |-> 0, copy |-> FALSE]

FileEntry(k) == [kind |-> "file", id |-> k, copy |-> FALSE]

CopyEntry(k) == [kind |-> "file", id |-> k, copy |-> TRUE]

\* A file of somebody else: it is in no list and the run never created it.
ForeignEntry == [kind |-> "file", id |-> 0, copy |-> FALSE]

NoCrowd == [on |-> FALSE, dir |-> <<>>, stem |-> <<>>, suffix |-> <<>>, upto |-> 0]

\* a counter padded to two digits
NumberedTwoDigits(stem, n, suffix) == stem \o <<"_">> \o ZeroPad(DecStr(n), 2) \o suffix

\* f"{stem}_{n:03d}{suffix}"
Numbered(stem, n, suffix) == stem \o <<"_">> \o ZeroPad(DecStr(n), 3) \o suffix

DigitValue(c) == CHOOSE k \in 0..9 : Digits[k + 1] = c

RECURSIVE DecValue(_)
DecValue(s) ==
    IF s = <<>> THEN 0
    ELSE 10 * DecValue(SubSeq(s, 1, Len(s) - 1)) + DigitValue(s[Len(s)])

\* the n with name = Numbered(stem, n, suffix), or 0 when there is none
NumberOf(name, stem, suffix) ==
    LET lo == Len(stem) + 2
        hi == Len(name) - Len(suffix)
        mid == SubSeq(name, lo, hi)
    IN  IF /\ hi - lo + 1 >= 3
           /\ hi - lo + 1 <= 6
           /\ \A k \in 1..Len(mid) : \E v \in 0..9 : Digits[v + 1] = mid[k]
           /\ name = Numbered(stem, DecValue(mid), suffix)
        THEN DecValue(mid)
        ELSE 0

CrowdPaths(c) ==
    IF c.on
    THEN {Join(c.dir, c.stem \o c.suffix)} \cup
         {Join(c.dir, Numbered(c.stem, n, c.suffix)) : n \in 1..c.upto}
    ELSE {}

InCrowd(c, p) ==
    /\ c.on
    /\ Len(p) = Len(c.dir) + 1
    /\ Parent(p) = c.dir
    /\ \/ Name(p) = c.stem \o c.suffix
       \/ LET n == NumberOf(Name(p), c.stem, c.suffix) IN 1 <= n /\ n <= c.upto

\* the paths that exist
Paths(f) == DOMAIN f.tree \cup CrowdPaths(f.crowd)

\* Path.exists()
Exists(f, p) == p \in DOMAIN f.tree \/ InCrowd(f.crowd, p)

\* Path.is_file()
IsFile(f, p) == (p \in DOMAIN f.tree /\ f.tree[p].kind = "file") \/ InCrowd(f.crowd, p)

\* Path.is_dir()
IsDir(f, p) == p \in DOMAIN f.tree /\ f.tree[p].kind = "dir"

\* the entries directly inside directory d (Path.iterdir)
Children(f, d) ==
    {p \in DOMAIN f.tree : Len(p) = Len(d) + 1 /\ Parent(p) = d}
        \cup (IF f.crowd.on /\ f.crowd.dir = d THEN CrowdPaths(f.crowd) ELSE {})

\* every entry below d (Path.rglob("*"))
Below(f, d) ==
    {p \in DOMAIN f.tree : IsStrictPrefix(d, p)}
        \cup (IF f.crowd.on /\ IsPrefix(d, f.crowd.dir) THEN CrowdPaths(f.crowd) ELSE {})

\* any(d.iterdir())
HasEntries(f, d) ==
    \/ \E p \in DOMAIN f.tree : Len(p) = Len(d) + 1 /\ Parent(p) = d
    \/ f.crowd.on /\ f.crowd.dir = d

\* some regular file lies below d
HasFileBelow(f, d) ==
    \/ \E p \in DOMAIN f.tree : IsStrictPrefix(d, p) /\ f.tree[p].kind = "file"
    \/ f.crowd.on /\ IsPrefix(d, f.crowd.dir)

Prefixes(p) == {SubSeq(p, 1, k) : k \in 0..Len(p)}

\* f with the entries of g added or replaced
Overlay(f, g) ==
    [f EXCEPT !.tree = [p \in DOMAIN f.tree \cup DOMAIN g |->
                           IF p \in DOMAIN g THEN g[p] ELSE f.tree[p]]]

Without(f, ps) == [f EXCEPT !.tree = [p \in DOMAIN f.tree \ ps |-> f.tree[p]]]

\* Path.mkdir(parents=True, exist_ok=True): the error raised, or "ok"
MkdirError(f, d) ==
    IF \E q \in Prefixes(d) : IsFile(f, q) THEN "FileExistsError" ELSE "ok"

\* Path.mkdir(parents=True, exist_ok=True): the tree after a call that succeeds
MkdirTree(f, d) ==
    Overlay(f, [q \in Prefixes(d) \ DOMAIN f.tree |-> DirEntry])

\* ------------------------------------------------------------ file metadata
\* A date is [y, m, d]: the local date of a timestamp (datetime.fromtimestamp).
\* NoDate stands for a timestamp that datetime.fromtimestamp rejects.
NoDate == [y |-> 0, m |-> 0, d |-> 0]

DateA == [y |-> 2024, m |-> 3, d |-> 5]

DateB == [y |-> 2025, m |-> 11, d |-> 27]

\* A size is <<q, r>>, standing for q * 1024 + r bytes with 0 <= r < 1024, so
\* that sizes of a gigabyte and more stay inside TLC's 32-bit integers.
Bytes(q, r) == <<q, r>>

\* what stat() reports for the files of the model
ProfileA == [mtime |-> DateA, birth |-> DateB, size |-> Bytes(0, 500)]

ProfileB == [mtime |-> DateB, birth |-> NoDate, size |-> Bytes(2343, 768)]

\* get_file_date(file_path, use_creation=True) once stat() has succeeded;
\* has_birth is hasattr(stat, "st_birthtime")
get_file_date(st, has_birth) ==
    IF has_birth /\ st.birth # NoDate THEN st.birth ELSE st.mtime

\* dt.strftime("%Y_%m_%d") and dt.strftime("%d_%m_%Y")
FolderName(dt, folder_format) ==
    LET Y == ZeroPad(DecStr(dt.y), 4)
        M == ZeroPad(DecStr(dt.m), 2)
        D == ZeroPad(DecStr(dt.d), 2)
    IN  IF folder_format = "YYYY_MM_DD"
        THEN Y \o <<"_">> \o M \o <<"_">> \o D
        ELSE D \o <<"_">> \o M \o <<"_">> \o Y

\* The labels of the source are Cyrillic; the module spells them in Latin
\* letters, one for one: "без расширения", "< 1 КБ", "ГБ", "МБ", "КБ".
NoExtLabel ==
    <<"b", "e", "z", " ", "r", "a", "s", "s", "h", "i", "r", "e", "n", "i", "y", "a">>

UnderKBLabel == <<"<", " ", "1", " ", "K", "B">>

UnitGB == <<"G", "B">>

UnitMB == <<"M", "B">>

UnitKB == <<"K", "B">>

\* (file_path.suffix or "").upper().lstrip("."), or the no-extension label
ExtFolder(name) ==
    LET ext == LStripDot(Upper(Suffix(name)))
    IN  IF ext # <<>> THEN ext ELSE NoExtLabel

\* a bucket that keeps the whole units of a size under ten units
BucketWholeUnits(size, qd) ==
    LET q == size[1]
    IN  IF q >= 100 * qd THEN (q \div (100 * qd)) * 100
        ELSE IF q >= 10 * qd THEN (q \div (10 * qd)) * 10
        ELSE q \div qd

\* a bucket that rounds up to the next step instead of down
BucketRoundedUp(size, qd) ==
    LET q == size[1]
    IN  IF q >= 100 * qd THEN (q \div (100 * qd)) * 100 + 100
        ELSE IF q >= 10 * qd THEN (q \div (10 * qd)) * 10 + 10
        ELSE 1

\* the bucket of n = size / divisor, for a size of at least one divisor; qd is
\* the divisor in units of 1024 bytes, and n // c = q \div (c * qd) because
\* 1024 divides the divisor
Bucket(size, qd) ==
    LET q == size[1]
    IN  IF q >= 100 * qd THEN (q \div (100 * qd)) * 100
        ELSE IF q >= 10 * qd THEN (q \div (10 * qd)) * 10
        ELSE 1

get_size_folder_name(size) ==
    LET q == size[1]
    IN  IF q < 1 THEN UnderKBLabel
        ELSE IF q >= 1024 * 1024
             THEN DecStr(Bucket(size, 1024 * 1024)) \o <<" ">> \o UnitGB
        ELSE IF q >= 1024
             THEN DecStr(Bucket(size, 1024)) \o <<" ">> \o UnitMB
        ELSE DecStr(Bucket(size, 1)) \o <<" ">> \o UnitKB

\* ------------------------------------------------------------ path planning
\* a target directory with the size folder above the extension folder
TargetDirSizeFirst(name, st, hb, c) ==
    LET d1 == Join(Root, FolderName(get_file_date(st, hb), c.folder_format))
        d2 == IF c.sort_by_size THEN Join(d1, get_size_folder_name(st.size)) ELSE d1
    IN  IF c.sort_by_extension THEN Join(d2, ExtFolder(name)) ELSE d2

\* dest_dir of Worker.run: root / folder_name [/ ext] [/ size_label]
TargetDir(name, st, has_birth, c) ==
    LET d1 == Join(Root, FolderName(get_file_date(st, has_birth), c.folder_format))
        d2 == IF c.sort_by_extension THEN Join(d1, ExtFolder(name)) ELSE d1
    IN  IF c.sort_by_size THEN Join(d2, get_size_folder_name(st.size)) ELSE d2

\* The while loop of _unique_dest_path from counter n on: the candidate of the
\* least counter m >= n whose name does not exist. When the next 32 names are
\* all taken the evaluation goes on behind them, which keeps the evaluation of
\* a long probe shallow.
RECURSIVE Probe(_, _, _, _, _)
Probe(f, dest_dir, stem, suffix, n) ==
    LET candidate == Join(dest_dir, Numbered(stem, n, suffix))
    IN  IF ~Exists(f, candidate) THEN candidate
        ELSE IF \A m \in (n + 1)..(n + 31) :
                    Exists(f, Join(dest_dir, Numbered(stem, m, suffix)))
        THEN Probe(f, dest_dir, stem, suffix, n + 32)
        ELSE Probe(f, dest_dir, stem, suffix, n + 1)

unique_dest_path(f, dest_dir, stem, suffix) ==
    LET candidate == Join(dest_dir, stem \o suffix)
    IN  IF ~Exists(f, candidate) THEN candidate
        ELSE Probe(f, dest_dir, stem, suffix, 1)

\* Path.resolve() in a tree without symbolic links
Resolve(p) == p

\* _same_path(p1, p2)
same_path(p1, p2) == Resolve(p1) = Resolve(p2)

\* the source's own name in the target directory, whatever name was resolved
MoveTargetSameName(file_path, dest_dir, dest_file) == Join(dest_dir, Name(file_path))

\* the path handed to shutil.move as the destination
MoveTarget(file_path, dest_dir, dest_file) == dest_file

\* shutil.move(src, dst) that succeeds: os.rename when dst is no directory
\* (an existing file at dst is replaced), else a move into directory dst
ShutilMoveDst(f, src, dst) == IF IsDir(f, dst) THEN Join(dst, Name(src)) ELSE dst

ShutilMoveError(f, src, dst) ==
    IF IsDir(f, dst) /\ Exists(f, Join(dst, Name(src))) THEN "Error" ELSE "ok"

\* a move that removes the source and writes nothing
ShutilMoveLosesFile(f, src, dst) == Without(f, {src})

\* a copy to the destination that leaves the source behind
ShutilMoveKeepsSource(f, src, dst) ==
    LET real_dst == ShutilMoveDst(f, src, dst)
    IN  Overlay(f, [p \in {real_dst} |-> f.tree[src]])

ShutilMove(f, src, dst) ==
    LET real_dst == ShutilMoveDst(f, src, dst)
    IN  Overlay(Without(f, {src}), [p \in {real_dst} |-> f.tree[src]])

\* shutil.move whose os.rename fails and whose copy succeeds before
\* os.unlink(src) fails: the copy stays, the source stays, the call raises
ShutilCopyOnly(f, src, dst) ==
    LET real_dst == ShutilMoveDst(f, src, dst)
    IN  Overlay(f, [p \in {real_dst} |-> CopyEntry(f.tree[src].id)])

\* ---------------------------------------------------------- state variables
VARIABLES
    fs,           \* the tree below root: path -> entry
    has_birth,    \* hasattr(stat, "st_birthtime") on this platform
    include_sub,  \* MainWindow.check_subfolders
    cfg,          \* folder_format, sort_by_extension, sort_by_size, delete_empty_dirs
    files,        \* Worker.files
    pc,           \* where start_move / Worker.run stands
    i,            \* number of files of the list already dispatched
    dest_dir,     \* Worker.run locals
    dest_file,
    attempts,     \* iterations done of "for _ in range(1000)"
    moved,
    skipped,
    errors,
    report,
    removed,      \* remove_empty_dirs: its counter
    events,       \* the signals emitted so far, in order
    faults,       \* failing calls and vanished files so far
    moveLog,      \* history: the moves performed
    reapLog,      \* history: the directories removed
    rmFailed,     \* history: the directories whose removal raised
    scans,        \* history: number of scans started by remove_empty_dirs
    vanished,     \* history: the listed files deleted before the run
    fs0,          \* history: the tree when run() started
    fsMoved,      \* history: the tree when the per-file loop ended
    size_in,      \* the byte counts handed to get_size_folder_name on its own
    size_out      \* the labels it returned for them, in order

vars ==
    <<fs, has_birth, include_sub, cfg, files, pc, i, dest_dir, dest_file, attempts,
      moved, skipped, errors, report, removed, events, faults,
      moveLog, reapLog, rmFailed, scans, vanished, fs0, fsMoved, size_in, size_out>>

\* the variables of the per-file loop that Worker.run does not touch after it
loopVars == <<dest_dir, dest_file, attempts, moved, skipped, errors, moveLog>>

reapVars == <<removed, reapLog, rmFailed, scans>>

\* the trees recorded at the start of run() and at the end of its loop
histVars == <<vanished, fs0, fsMoved>>

envVars == <<has_birth, include_sub, cfg, files>>

\* the arguments and results of the calls of get_size_folder_name made apart
\* from a run
sizeVars == <<size_in, size_out>>

\* ------------------------------------------------------------ initial trees
NameA == <<"a", ".", "t", "x", "t">>

NameB == <<"b">>

SubDir == <<<<"s">>, <<"d">>>>

\* The files a tree may hold when the move is started. "place" is the file's
\* target directory under the configuration of the run (a tree that an
\* earlier run has sorted); "placeA" is the target directory of a file with
\* ProfileA.
Slots ==
    <<[name |-> NameA,  st |-> ProfileA, loc |-> "root"],
      [name |-> NameA,  st |-> ProfileA, loc |-> "sub"],
      [name |-> NameA,  st |-> ProfileA, loc |-> "place"],
      [name |-> NameB,  st |-> ProfileB, loc |-> "root"],
      [name |-> NameA,  st |-> ProfileB, loc |-> "placeA"]>>

\* stat() of the file with identity k; a file of somebody else has the
\* metadata of ProfileB
Stat(k) == IF k \in DOMAIN Slots THEN Slots[k].st ELSE ProfileB

SlotPath(k, hb, c) ==
    LET s == Slots[k]
    IN  CASE s.loc = "root"   -> Join(Root, s.name)
          [] s.loc = "sub"    -> Join(SubDir, s.name)
          [] s.loc = "place"  -> Join(TargetDir(s.name, s.st, hb, c), s.name)
          [] s.loc = "placeA" -> Join(TargetDir(s.name, ProfileA, hb, c), s.name)

Configs ==
    [folder_format : {"YYYY_MM_DD", "DD_MM_YYYY"}, sort_by_extension : BOOLEAN,
     sort_by_size : BOOLEAN, delete_empty_dirs : BOOLEAN]

\* the tree that holds the files S and the directories above them
TreeOf(S, hb, c) ==
    LET paths == {SlotPath(k, hb, c) : k \in S}
        above == UNION {Prefixes(Parent(p)) : p \in paths} \cup {Root}
    IN  [p \in paths \cup above |->
            IF p \in above THEN DirEntry
            ELSE FileEntry(CHOOSE k \in S : SlotPath(k, hb, c) = p)]

\* A crowded target directory: the directory that a.txt with ProfileA goes to
\* already holds a.txt and a_001.txt ... a_<ProbeCap>.txt.
CrowdOf(hb, c) ==
    [on |-> TRUE, dir |-> TargetDir(NameA, ProfileA, hb, c),
     stem |-> Stem(NameA), suffix |-> Suffix(NameA), upto |-> ProbeCap]

CrowdDirs(hb, c) ==
    [p \in Prefixes(TargetDir(NameA, ProfileA, hb, c)) |-> DirEntry]

\* the configuration of the plain date sort
PlainConfig(c) ==
    c.folder_format = "YYYY_MM_DD" /\ ~c.sort_by_extension /\ ~c.sort_by_size

Layouts(hb, c) ==
    {S \in SUBSET DOMAIN Slots :
        /\ Cardinality(S) <= (IF PlainConfig(c) THEN MaxFiles ELSE MaxFilesOther)
        /\ \A k, l \in S : k # l => SlotPath(k, hb, c) # SlotPath(l, hb, c)}

\* The trees the user may start the move on. A crowded directory comes with
\* a.txt in root as the only other file, and is not walked (include_sub is off).
InitTrees(hb, c, sub) ==
    {[tree |-> TreeOf(S, hb, c), crowd |-> NoCrowd] : S \in Layouts(hb, c)}
        \cup (IF sub THEN {}
              ELSE {Overlay([tree |-> TreeOf({1}, hb, c), crowd |-> CrowdOf(hb, c)],
                            CrowdDirs(hb, c))})

NoReport ==
    [moved |-> 0, total |-> 0, skipped |-> 0, errors |-> 0, removed |-> 0,
     showSkipped |-> FALSE, showErrors |-> FALSE, showRemoved |-> FALSE]

\* Worker.__init__ has not run yet: no list, no counters, no signals
NotStarted ==
    /\ files = <<>>
    /\ pc = "idle"
    /\ i = 0
    /\ dest_dir = Root
    /\ dest_file = Root
    /\ attempts = 0
    /\ moved = 0
    /\ skipped = 0
    /\ errors = <<>>
    /\ report = NoReport
    /\ removed = 0
    /\ events = <<>>
    /\ faults = 0
    /\ moveLog = <<>>
    /\ reapLog = <<>>
    /\ rmFailed = {}
    /\ scans = 0
    /\ vanished = {}
    /\ fs0 = fs
    /\ fsMoved = fs

Init ==
    /\ has_birth \in BOOLEAN
    /\ include_sub \in BOOLEAN
    /\ cfg \in Configs
    /\ fs \in InitTrees(has_birth, cfg, include_sub)
    /\ NotStarted
    /\ size_in = <<>>
    /\ size_out = <<>>

\* ---------------------------------------------------------------- signals
\* a progress signal that counts the files from zero
ProgressFromZero(cur, total) ==
    [type |-> "progress", cur |-> cur - 1, total |-> total, kind |-> "", name |-> <<>>]

Progress(cur, total) ==
    [type |-> "progress", cur |-> cur, total |-> total, kind |-> "", name |-> <<>>]

\* a log line; kind is the outcome it reports, cur the 1-based index of the file
Log(kind, cur, name) ==
    [type |-> "log", cur |-> cur, total |-> 0, kind |-> kind, name |-> name]

Success == [type |-> "finished_success", cur |-> 0, total |-> 0, kind |-> "", name |-> <<>>]

Failure == [type |-> "finished_error", cur |-> 0, total |-> 0, kind |-> "", name |-> <<>>]

\* ----------------------------------------------------------- MainWindow part
\* the files a walk lists: every file below root, or those directly in root
Listed(f, sub) ==
    IF sub THEN {p \in Below(f, Root) : IsFile(f, p)}
    ELSE {p \in Children(f, Root) : IsFile(f, p)}

Orders(S) ==
    {q \in [1..Cardinality(S) -> S] : \A k, l \in DOMAIN q : k # l => q[k] # q[l]}

\* The order of a list that pathlib's top-down walk can produce: the entries
\* of a directory come before those of the directories inside it, and the
\* files below one directory are listed in one run; the order among the
\* entries of one directory is the platform's.
WalkOrder(f, q) ==
    /\ \A k, l \in DOMAIN q :
          IsStrictPrefix(Parent(q[k]), Parent(q[l])) => k < l
    /\ \A d \in {x \in DOMAIN f.tree : IsDir(f, x)} :
          \A k, l, m \in DOMAIN q :
              (k < l /\ l < m /\ IsStrictPrefix(d, q[k]) /\ IsStrictPrefix(d, q[m]))
                  => IsStrictPrefix(d, q[l])

\* collect_files(root, include_subfolders): the lists it can return
collect_files(f, sub) == {q \in Orders(Listed(f, sub)) : WalkOrder(f, q)}

\* start_move up to the confirmation dialog: the list is collected
StartMove ==
    /\ pc = "idle"
    /\ Listed(fs, include_sub) # {}
    /\ files' \in collect_files(fs, include_sub)
    /\ pc' = "confirm"
    /\ UNCHANGED <<fs, has_birth, include_sub, cfg, i, report, events, faults>>
    /\ UNCHANGED histVars
    /\ UNCHANGED loopVars
    /\ UNCHANGED reapVars
    /\ UNCHANGED sizeVars

\* while the dialog is open a listed file is deleted by someone else
FileVanishes ==
    /\ pc = "confirm"
    /\ faults < MaxFaults
    /\ \E k \in DOMAIN files :
          /\ IsFile(fs, files[k])
          /\ fs' = Without(fs, {files[k]})
          /\ vanished' = vanished \cup {files[k]}
    /\ faults' = faults + 1
    /\ UNCHANGED <<pc, i, report, events, fs0, fsMoved>>
    /\ UNCHANGED envVars
    /\ UNCHANGED loopVars
    /\ UNCHANGED reapVars
    /\ UNCHANGED sizeVars

\* the user confirms: Worker(...) is built and started, run() sets its counters
StartWorker ==
    /\ pc = "confirm"
    /\ pc' = "next"
    /\ i' = 0
    /\ moved' = 0
    /\ skipped' = 0
    /\ errors' = <<>>
    /\ fs0' = fs
    /\ UNCHANGED <<fs, report, events, faults, vanished, fsMoved>>
    /\ UNCHANGED <<dest_dir, dest_file, attempts, moveLog>>
    /\ UNCHANGED envVars
    /\ UNCHANGED reapVars
    /\ UNCHANGED sizeVars

\* ------------------------------------------------------ Worker.run, per file
file_path == files[i + 1]

\* The iteration is over. dest_dir, dest_file and the loop counter are dead
\* until the next iteration assigns them, so the model clears them.
NextFile ==
    /\ i' = i + 1
    /\ pc' = "next"
    /\ dest_dir' = Root
    /\ dest_file' = Root
    /\ attempts' = 0

\* a skip that is logged but not counted
SkipFileUncounted(kind, ev) ==
    /\ events' = ev \o <<Log(kind, i + 1, Name(file_path))>>
    /\ NextFile
    /\ UNCHANGED <<moved, skipped, errors>>

\* the file is done with a skip: one log line, skipped += 1, continue
SkipFile(kind, ev) ==
    /\ events' = ev \o <<Log(kind, i + 1, Name(file_path))>>
    /\ skipped' = skipped + 1
    /\ NextFile
    /\ UNCHANGED <<moved, errors>>

\* an except branch that gives the whole run up with the error event
FailFileAbortsRun(err, ev) ==
    /\ events' = ev \o <<Failure>>
    /\ errors' = Append(errors, [name |-> Name(file_path), err |-> err])
    /\ i' = i + 1
    /\ pc' = "done"
    /\ dest_dir' = Root
    /\ dest_file' = Root
    /\ attempts' = 0
    /\ UNCHANGED <<moved, skipped>>

\* the except branch: the error is recorded and logged, the loop goes on
FailFile(err, ev) ==
    /\ events' = ev \o <<Log("error", i + 1, Name(file_path))>>
    /\ errors' = Append(errors, [name |-> Name(file_path), err |-> err])
    /\ NextFile
    /\ UNCHANGED <<moved, skipped>>

\* a listed file that is gone is taken for a failure of the file
MissingSourceIsError(ev) ==
    /\ FailFile("stat", ev)
    /\ UNCHANGED <<fs, faults>>

\* "if not file_path.exists()": one log line, skipped += 1, continue
MissingSource(ev) ==
    /\ SkipFile("not_found", ev)
    /\ UNCHANGED <<fs, faults>>

\* The loop head and the first half of the body: progress is emitted, the
\* source must still exist, then date, target directory, mkdir, the first name
\* resolution and the first same-file check.
Plan ==
    /\ pc = "next"
    /\ i < Len(files)
    /\ LET ev == Append(events, Progress(i + 1, Len(files)))
       IN  IF ~Exists(fs, file_path)
           THEN MissingSource(ev)
           ELSE \E fault \in {"none", "stat", "mkdir"} :
                  /\ fault # "none" => faults < MaxFaults
                  /\ faults' = IF fault = "none" THEN faults ELSE faults + 1
                  /\ LET st == Stat(fs.tree[file_path].id)
                         dd == TargetDir(Name(file_path), st, has_birth, cfg)
                         made == MkdirTree(fs, dd)
                         df == unique_dest_path(made, dd, Stem(Name(file_path)),
                                                Suffix(Name(file_path)))
                     IN  IF fault = "stat"
                         THEN /\ FailFile("stat", ev)
                              /\ UNCHANGED fs
                         ELSE IF fault = "mkdir" \/ MkdirError(fs, dd) # "ok"
                         THEN /\ FailFile("mkdir", ev)
                              /\ UNCHANGED fs
                         ELSE /\ fs' = made
                              /\ IF same_path(file_path, df)
                                 THEN SkipFile("in_place", ev)
                                 ELSE /\ events' = ev
                                      /\ dest_dir' = dd
                                      /\ dest_file' = df
                                      /\ attempts' = 0
                                      /\ pc' = "verify"
                                      /\ UNCHANGED <<i, moved, skipped, errors>>
    /\ UNCHANGED <<report, moveLog>>
    /\ UNCHANGED histVars
    /\ UNCHANGED envVars
    /\ UNCHANGED reapVars
    /\ UNCHANGED sizeVars

\* a loop that goes on to the move whatever exists() says
VerifyWithoutLooking ==
    /\ pc = "verify"
    /\ pc' = "move"
    /\ UNCHANGED <<i, events, moved, skipped, errors, dest_dir, dest_file, attempts>>
    /\ UNCHANGED <<fs, report, faults, moveLog>>
    /\ UNCHANGED histVars
    /\ UNCHANGED envVars
    /\ UNCHANGED reapVars
    /\ UNCHANGED sizeVars

\* one iteration of "for _ in range(1000)", or its else branch
Verify ==
    /\ pc = "verify"
    /\ IF attempts >= ProbeCap
       THEN SkipFile("no_free_name", events)
       ELSE IF ~Exists(fs, dest_file)
       THEN /\ pc' = "move"
            /\ UNCHANGED <<i, events, moved, skipped, errors, dest_dir, dest_file,
                           attempts>>
       ELSE IF same_path(file_path, dest_file)
       THEN SkipFile("in_place", events)
       ELSE /\ dest_file' = unique_dest_path(fs, dest_dir, Stem(Name(file_path)),
                                             Suffix(Name(file_path)))
            /\ attempts' = attempts + 1
            /\ UNCHANGED <<pc, i, events, moved, skipped, errors, dest_dir>>
    /\ UNCHANGED <<fs, report, faults, moveLog>>
    /\ UNCHANGED histVars
    /\ UNCHANGED envVars
    /\ UNCHANGED reapVars
    /\ UNCHANGED sizeVars

\* last same-file check, then shutil.move
Move ==
    /\ pc = "move"
    /\ \E fault \in {"none", "move", "copy"} :
          /\ fault # "none" => faults < MaxFaults
          /\ faults' = IF fault = "none" THEN faults ELSE faults + 1
          /\ LET dst == MoveTarget(file_path, dest_dir, dest_file)
             IN  IF same_path(file_path, dest_file)
                 THEN /\ fault = "none"
                      /\ SkipFile("in_place", events)
                      /\ UNCHANGED <<fs, moveLog>>
                 ELSE IF fault = "move" \/ ShutilMoveError(fs, file_path, dst) # "ok"
                 THEN /\ FailFile("move", events)
                      /\ UNCHANGED <<fs, moveLog>>
                 ELSE IF fault = "copy"
                 THEN /\ FailFile("move", events)
                      /\ fs' = ShutilCopyOnly(fs, file_path, dst)
                      /\ UNCHANGED moveLog
                 ELSE /\ fs' = ShutilMove(fs, file_path, dst)
                      /\ moveLog' = Append(moveLog,
                             [idx |-> i + 1, src |-> file_path,
                              dst |-> ShutilMoveDst(fs, file_path, dst),
                              existed |-> Exists(fs, ShutilMoveDst(fs, file_path, dst)),
                              id |-> fs.tree[file_path].id])
                      /\ moved' = moved + 1
                      /\ events' = Append(events, Log("moved", i + 1, Name(file_path)))
                      /\ NextFile
                      /\ UNCHANGED <<skipped, errors>>
    /\ UNCHANGED report
    /\ UNCHANGED histVars
    /\ UNCHANGED envVars
    /\ UNCHANGED reapVars
    /\ UNCHANGED sizeVars

\* ------------------------------------------------- Worker.run, after the loop
\* the report text, as the numbers and the optional parts it contains
Report ==
    /\ pc = "next"
    /\ i = Len(files)
    /\ report' = [moved |-> moved, total |-> Len(files), skipped |-> skipped,
                  errors |-> Len(errors), removed |-> 0,
                  showSkipped |-> skipped # 0, showErrors |-> errors # <<>>,
                  showRemoved |-> FALSE]
    /\ pc' = IF cfg.delete_empty_dirs THEN "reap" ELSE "emit"
    /\ removed' = 0
    /\ fsMoved' = fs
    /\ UNCHANGED <<fs, i, events, faults, reapLog, rmFailed, scans, vanished, fs0>>
    /\ UNCHANGED envVars
    /\ UNCHANGED loopVars
    /\ UNCHANGED sizeVars

\* a scan list that holds root as well
ScanDirsWithRoot(f) == {p \in DOMAIN f.tree : IsDir(f, p)}

\* the directories to scan: everything rglob("*") yields that is a directory
ScanDirs(f) == {p \in DOMAIN f.tree : p # Root /\ IsDir(f, p)}

\* dirs.sort(key=lambda p: len(p.parts), reverse=True)
RECURSIVE DeepestFirst(_)
DeepestFirst(S) ==
    IF S = {} THEN <<>>
    ELSE LET d == CHOOSE x \in S : \A y \in S : Len(y) <= Len(x)
         IN  <<d>> \o DeepestFirst(S \ {d})

\* "for d in dirs": the tree, the directories removed and the directories
\* whose removal raised, after the rest ds of the list; rmdir raises OSError
\* for the directories of failing
RECURSIVE ScanLoop(_, _, _)
ScanLoop(st, ds, failing) ==
    IF ds = <<>> THEN st
    ELSE LET d == Head(ds)
             try == IsDir(st.fs, d) /\ ~HasEntries(st.fs, d)
             ok == try /\ d \notin failing
         IN  ScanLoop([fs |-> IF ok THEN Without(st.fs, {d}) ELSE st.fs,
                       gone |-> IF ok THEN Append(st.gone, d) ELSE st.gone,
                       raised |-> IF try /\ ~ok THEN st.raised \cup {d}
                                  ELSE st.raised],
                      Tail(ds), failing)

\* the subsets of S with at most n elements
RECURSIVE SubsetsUpTo(_, _)
SubsetsUpTo(S, n) ==
    IF n <= 0 THEN {{}}
    ELSE LET smaller == SubsetsUpTo(S, n - 1)
         IN  smaller \cup {T \cup {x} : T \in smaller, x \in S}

\* the directories with no file below them: the only ones a scan can try to remove
CanEmpty(f) == {d \in ScanDirs(f) : ~HasFileBelow(f, d)}

\* a scan that counts the directories whose removal raised as removed
ScanPassCountsRaised(f, failing) ==
    LET res == ScanLoop([fs |-> f, gone |-> <<>>, raised |-> {}],
                        DeepestFirst(ScanDirs(f)), failing)
    IN  [res EXCEPT !.gone = res.gone \o DeepestFirst(res.raised)]

\* one pass of the while loop of remove_empty_dirs
ScanPass(f, failing) ==
    ScanLoop([fs |-> f, gone |-> <<>>, raised |-> {}],
             DeepestFirst(ScanDirs(f)), failing)

\* a scan that is repeated as long as a removal raised, too
ScanAgainAfterFailure(failing) ==
    LET res == ScanPass(fs, failing)
    IN  /\ res.raised = failing
        /\ fs' = res.fs
        /\ removed' = removed + Len(res.gone)
        /\ reapLog' = reapLog \o res.gone
        /\ rmFailed' = rmFailed \cup failing
        /\ scans' = scans + 1
        /\ IF res.gone # <<>> \/ failing # {}
           THEN /\ pc' = "reap"
                /\ UNCHANGED <<report, events>>
           ELSE /\ pc' = "emit"
                /\ IF removed # 0
                   THEN /\ report' = [report EXCEPT !.removed = removed,
                                                    !.showRemoved = TRUE]
                        /\ events' = Append(events, Log("removed_dirs", 0, <<>>))
                   ELSE UNCHANGED <<report, events>>

\* remove_empty_dirs: one scan in which rmdir raises for the directories of
\* failing. A scan that removed something is followed by another one; after a
\* scan that removed nothing the function returns and run() adds the count to
\* the report.
Scan(failing) ==
    LET res == ScanPass(fs, failing)
    IN  /\ res.raised = failing
        /\ fs' = res.fs
        /\ removed' = removed + Len(res.gone)
        /\ reapLog' = reapLog \o res.gone
        /\ rmFailed' = rmFailed \cup failing
        /\ scans' = scans + 1
        /\ IF res.gone # <<>>
           THEN /\ pc' = "reap"
                /\ UNCHANGED <<report, events>>
           ELSE /\ pc' = "emit"
                /\ IF removed # 0
                   THEN /\ report' = [report EXCEPT !.removed = removed,
                                                    !.showRemoved = TRUE]
                        /\ events' = Append(events, Log("removed_dirs", 0, <<>>))
                   ELSE UNCHANGED <<report, events>>

\* a scan with at most as many failing removals as the run may still have
ReapPass ==
    /\ pc = "reap"
    /\ \E failing \in SubsetsUpTo(CanEmpty(fs), MaxFaults - faults) :
          /\ faults + Cardinality(failing) <= MaxFaults
          /\ faults' = faults + Cardinality(failing)
          /\ Scan(failing)
    /\ UNCHANGED i
    /\ UNCHANGED histVars
    /\ UNCHANGED envVars
    /\ UNCHANGED loopVars
    /\ UNCHANGED sizeVars

\* a scan in which any number of removals fail, scan after scan (directories
\* that cannot be removed at all)
ReapPassBlocked ==
    /\ pc = "reap"
    /\ \E failing \in SUBSET CanEmpty(fs) :
          /\ failing # {}
          /\ Scan(failing)
    /\ UNCHANGED <<i, faults>>
    /\ UNCHANGED histVars
    /\ UNCHANGED envVars
    /\ UNCHANGED loopVars
    /\ UNCHANGED sizeVars

\* a failing scan after which run() still goes on to emit the report
ReapScanFailsAndReports ==
    /\ pc = "reap"
    /\ faults < MaxFaults
    /\ faults' = faults + 1
    /\ scans' = scans + 1
    /\ events' = Append(events, Failure)
    /\ pc' = "emit"
    /\ UNCHANGED <<fs, i, report, removed, reapLog, rmFailed>>
    /\ UNCHANGED histVars
    /\ UNCHANGED envVars
    /\ UNCHANGED loopVars
    /\ UNCHANGED sizeVars

\* building the list of a scan raises (is_dir or the directory walk fails):
\* the exception leaves remove_empty_dirs and run() emits finished_error
ReapScanFails ==
    /\ pc = "reap"
    /\ faults < MaxFaults
    /\ faults' = faults + 1
    /\ scans' = scans + 1
    /\ events' = Append(events, Failure)
    /\ pc' = "done"
    /\ UNCHANGED <<fs, i, report, removed, reapLog, rmFailed>>
    /\ UNCHANGED histVars
    /\ UNCHANGED envVars
    /\ UNCHANGED loopVars
    /\ UNCHANGED sizeVars

\* self.finished_success.emit(report)
Finish ==
    /\ pc = "emit"
    /\ events' = Append(events, Success)
    /\ pc' = "done"
    /\ UNCHANGED <<fs, i, report, faults>>
    /\ UNCHANGED histVars
    /\ UNCHANGED reapVars
    /\ UNCHANGED envVars
    /\ UNCHANGED loopVars
    /\ UNCHANGED sizeVars

Next ==
    \/ StartMove
    \/ FileVanishes
    \/ StartWorker
    \/ Plan
    \/ Verify
    \/ Move
    \/ Report
    \/ ReapPass
    \/ ReapScanFails
    \/ Finish

Spec == Init /\ [][Next]_vars

\* Another program creates a file at the very path that was just chosen as
\* the destination, after _unique_dest_path returned it and before the
\* "if not dest_file.exists()" of the loop looks at it.
DestinationTaken ==
    /\ pc = "verify"
    /\ ~Exists(fs, dest_file)
    /\ faults < MaxFaults
    /\ faults' = faults + 1
    /\ fs' = Overlay(fs, [p \in {dest_file} |-> ForeignEntry])
    /\ UNCHANGED <<pc, i, report, events>>
    /\ UNCHANGED histVars
    /\ UNCHANGED envVars
    /\ UNCHANGED loopVars
    /\ UNCHANGED reapVars
    /\ UNCHANGED sizeVars

RaceNext == Next \/ DestinationTaken

ReapNext == Next \/ ReapPassBlocked

\* the run with directories whose removal fails every time it is tried
ReapSpec == Init /\ [][ReapNext]_vars

\* remove_empty_dirs is running
Reaping == pc = "reap"

\* remove_empty_dirs runs in the worker thread, which is not held up for
\* ever: while it is running, scans keep being made
FairReapSpec ==
    /\ ReapSpec
    /\ WF_vars(Finish)
    /\ ([]<>~Reaping \/ []<><<ReapPass \/ ReapPassBlocked \/ ReapScanFails>>_vars)

\* the run with a second program that writes into the destination directories
RaceSpec == Init /\ [][RaceNext]_vars

\* ------------------------------------------------------------- properties
\* the 1-based positions in events of the per-file log lines of file k
LogsOf(k) == {n \in DOMAIN events : events[n].type = "log" /\ events[n].cur = k}

\* file k has been given the outcome kind
HasOutcome(k, kind) == \E n \in LogsOf(k) : events[n].kind = kind

\* the path at which file_path's computed destination lies when its name is free
PlaceOf(f, p) ==
    Join(TargetDir(Name(p), Stat(f.tree[p].id), has_birth, cfg), Name(p))

\* no listed file was deleted between the collection of the list and the run
ListIsCurrent == vanished = {}

\* C1: every move that is performed goes to a path that did not exist just
\* before it; nothing that exists is replaced, entries made by earlier moves
\* of the batch included.
C1_NoOverwrite == \A k \in DOMAIN moveLog : ~moveLog[k].existed

\* two files of the same name were moved into the same directory
C1_Witness ==
    \E j, k \in DOMAIN moveLog :
        /\ j < k
        /\ Name(moveLog[j].src) = Name(moveLog[k].src)
        /\ Parent(moveLog[j].dst) = Parent(moveLog[k].dst)

\* C2 as stated: after the run, for every file with outcome MOVED a file
\* exists at exactly one of its original path and its destination path.
C2_ExactlyOnePath ==
    pc = "done" =>
        \A k \in DOMAIN moveLog :
            IsFile(fs, moveLog[k].src) # IsFile(fs, moveLog[k].dst)

\* C2 amended: after a run on a list that is current, every file with outcome
\* MOVED is itself at its destination path and no longer at its original
\* path; the original path is free or holds another file.
C2_MovedFileAtDestination ==
    (pc = "done" /\ ListIsCurrent) =>
        \A k \in DOMAIN moveLog :
            LET m == moveLog[k]
            IN  /\ m.dst \in DOMAIN fs.tree
                /\ fs.tree[m.dst] = FileEntry(m.id)
                /\ m.src \in DOMAIN fs.tree => fs.tree[m.src].id # m.id

\* a run has ended in which a later move has filled the path an earlier move left
C2_Witness ==
    /\ pc = "done"
    /\ ListIsCurrent
    /\ \E k \in DOMAIN moveLog : IsFile(fs, moveLog[k].src)

\* C3 as stated: when every file of the list already lies at its computed
\* destination the run moves nothing, changes no path and gives every file
\* the outcome SKIPPED_ALREADY_IN_PLACE.
C3_SortedTreeIsLeftAlone ==
    (/\ pc = "done"
     /\ ListIsCurrent
     /\ \A k \in DOMAIN files : files[k] = PlaceOf(fs0, files[k]))
        => /\ moveLog = <<>>
           /\ moved = 0
           /\ \A k \in DOMAIN files : HasOutcome(k, "in_place")
           /\ \A k \in DOMAIN files : IsFile(fs, files[k])

\* the indices of the files that ended in the except branch
Errored == {k \in DOMAIN files : HasOutcome(k, "error")}

\* C4: a failure while one file is processed stays with that file: it is
\* recorded with the file's name and the error text, the file is still at its
\* path, the files after it are processed, and the run ends with the success
\* report, whose moved count is the number of moves made and whose error
\* count is the number of files that failed. The error event comes from a
\* failing scan of remove_empty_dirs only.
C4_FailureConfined ==
    /\ Len(errors) = Cardinality(Errored)
    /\ \A k \in Errored :
          /\ IsFile(fs, files[k])
          /\ \E n \in DOMAIN errors :
                errors[n].name = Name(files[k]) /\ errors[n].err # ""
    /\ pc \in {"reap", "emit", "done"} =>
          /\ i = Len(files)
          /\ \A k \in DOMAIN files : LogsOf(k) # {}
          /\ report.total = Len(files)
          /\ report.moved = Len(moveLog)
          /\ report.errors = Cardinality(Errored)
          /\ report.showErrors = (Errored # {})
    /\ pc = "done" =>
          \/ events[Len(events)] = Success
          \/ cfg.delete_empty_dirs /\ scans > 0 /\ events[Len(events)] = Failure

\* three files, the second fails on its move, the run reports 2 of 3 and 1 error
C4_Witness ==
    /\ pc = "done"
    /\ events[Len(events)] = Success
    /\ Len(files) = 3
    /\ HasOutcome(1, "moved") /\ HasOutcome(2, "error") /\ HasOutcome(3, "moved")
    /\ errors = <<[name |-> Name(files[2]), err |-> "move"]>>
    /\ report.moved = 2 /\ report.total = 3 /\ report.errors = 1
    /\ IsFile(fs, files[2])

\* remove_empty_dirs has returned to run()
ReaperReturned ==
    /\ cfg.delete_empty_dirs
    /\ pc \in {"emit", "done"}
    /\ pc = "done" => events[Len(events)] = Success

\* directory d of the tree after the moves is gone
Gone(d) == d \notin DOMAIN fs.tree

\* the entries of d in the tree after the moves
EntriesAfterMoves(d) ==
    {p \in DOMAIN fsMoved.tree : Len(p) = Len(d) + 1 /\ Parent(p) = d}

\* C5: remove_empty_dirs never removes root and never removes a directory
\* while it has an entry (every entry it had after the moves was removed
\* before it); it removes directories only; its counter is the number of
\* directories removed; and when no removal failed, then on return a
\* directory is gone exactly if it had no entry after the moves or all its
\* entries were directories that are gone.
C5_ReapsExactlyTheEmpty ==
    /\ IsDir(fs, Root)
    /\ removed = Len(reapLog)
    /\ \A n \in DOMAIN reapLog :
          /\ reapLog[n] # Root
          /\ IsDir(fsMoved, reapLog[n])
          /\ ~(fsMoved.crowd.on /\ fsMoved.crowd.dir = reapLog[n])
          /\ \A p \in EntriesAfterMoves(reapLog[n]) :
                \E m \in 1..(n - 1) : reapLog[m] = p
          /\ \A m \in DOMAIN reapLog : m # n => reapLog[m] # reapLog[n]
    /\ pc \in {"reap", "emit", "done"} =>
          /\ DOMAIN fs.tree = DOMAIN fsMoved.tree \ {reapLog[n] : n \in DOMAIN reapLog}
          /\ \A p \in DOMAIN fs.tree : fs.tree[p] = fsMoved.tree[p]
    /\ ReaperReturned =>
          /\ report.removed = Len(reapLog)
          /\ report.showRemoved = (reapLog # <<>>)
          /\ Len(reapLog) = Cardinality({d \in ScanDirs(fsMoved) : Gone(d)})
    /\ (ReaperReturned /\ rmFailed = {}) =>
          \A d \in ScanDirs(fsMoved) :
              Gone(d) <=>
                 /\ ~(fsMoved.crowd.on /\ fsMoved.crowd.dir = d)
                 /\ \A p \in EntriesAfterMoves(d) : IsDir(fsMoved, p) /\ Gone(p)

\* a nested chain emptied by the moves was removed completely, no removal
\* failed, and a directory that holds a file was kept
C5_Witness ==
    /\ ReaperReturned
    /\ rmFailed = {}
    /\ moved > 0
    /\ IsDir(fsMoved, SubDir) /\ Gone(SubDir) /\ Gone(Parent(SubDir))
    /\ reapLog = <<SubDir, Parent(SubDir)>>
    /\ \E d \in ScanDirs(fsMoved) : ~Gone(d)

\* the decimal digit of n at the place of value unit
DigitAt(n, unit) == Digits[((n \div unit) % 10) + 1]

\* counter n written with at least three digits, for 1 <= n <= 9999
ThreeDigits(n) ==
    IF n >= 1000
    THEN <<DigitAt(n, 1000), DigitAt(n, 100), DigitAt(n, 10), DigitAt(n, 1)>>
    ELSE <<DigitAt(n, 100), DigitAt(n, 10), DigitAt(n, 1)>>

\* run() has just called _unique_dest_path and holds its result in dest_file
JustResolved == pc = "verify" /\ attempts = 0

\* move k of the log is the last move of its file
LastMove(k) == \A m \in DOMAIN moveLog : m > k => moveLog[m].id # moveLog[k].id

\* C6: the path _unique_dest_path returns does not exist; it is stem+suffix
\* when that name is unused in dest_dir, and otherwise stem_NNN+suffix for the
\* least counter N >= 1 whose name is unused, written with at least three
\* digits; two files moved in one batch are left at distinct destinations.
C6_UniqueDestPath ==
    /\ JustResolved =>
          LET stem == Stem(Name(file_path))
              suffix == Suffix(Name(file_path))
              base == Join(dest_dir, stem \o suffix)
              named(n) == Join(dest_dir, stem \o <<"_">> \o ThreeDigits(n) \o suffix)
          IN  /\ ~Exists(fs, dest_file)
              /\ Parent(dest_file) = dest_dir
              /\ ~Exists(fs, base) => dest_file = base
              /\ Exists(fs, base) =>
                    \E n \in 1..(ProbeCap + MaxFiles) :
                        /\ dest_file = named(n)
                        /\ \A m \in 1..(n - 1) : Exists(fs, named(m))
    /\ \A j, k \in DOMAIN moveLog :
          (j # k /\ LastMove(j) /\ LastMove(k)) => moveLog[j].dst # moveLog[k].dst

\* a.txt from root is headed for a directory that holds a.txt, and is given
\* the name a_001.txt
C6_Witness ==
    /\ JustResolved
    /\ file_path = <<NameA>>
    /\ IsFile(fs, Join(dest_dir, NameA))
    /\ dest_file = Join(dest_dir, <<"a", "_", "0", "0", "1", ".", "t", "x", "t">>)

\* when the run started, the target directory of list entry k held the file's
\* own name and every numbered candidate up to the cap
AllNamesTaken(k) ==
    /\ files[k] \in DOMAIN fs0.tree
    /\ LET name == Name(files[k])
           dir == TargetDir(name, Stat(fs0.tree[files[k]].id), has_birth, cfg)
       IN  /\ Exists(fs0, Join(dir, name))
           /\ \A n \in 1..ProbeCap :
                 Exists(fs0, Join(dir, Numbered(Stem(name), n, Suffix(name))))

\* C7 as stated: a file whose own name and every numbered candidate up to the
\* cap are taken in its target directory is given up with the outcome
\* SKIPPED_NO_FREE_NAME: it is counted as skipped, stays at its path and is
\* not moved under a name beyond the cap (no call fails in the run).
C7_ProbeStopsAtCap ==
    (pc = "done" /\ faults = 0) =>
        \A k \in DOMAIN files :
            AllNamesTaken(k) =>
                /\ HasOutcome(k, "no_free_name")
                /\ IsFile(fs, files[k])
                /\ skipped >= 1
                /\ \A m \in DOMAIN moveLog : moveLog[m].idx # k

\* the positions in events of the terminal events
Terminals ==
    {n \in DOMAIN events : events[n].type \in {"finished_success", "finished_error"}}

\* run() has been entered
Running == pc \notin {"idle", "confirm"}

\* C8: a run emits at most one terminal event, it is the last event, and the
\* run has ended exactly when it is there; finished_success comes only after
\* every file of the list has been processed and, with delete_empty_dirs,
\* after remove_empty_dirs has returned from a scan that removed nothing;
\* finished_error comes from outside the per-file handling and excludes the
\* report.
C8_ExactlyOneTerminalEvent ==
    /\ Cardinality(Terminals) <= 1
    /\ (pc = "done") <=> (Terminals # {})
    /\ Terminals # {} => Terminals = {Len(events)}
    /\ (Terminals # {} /\ events[Len(events)] = Success) =>
          /\ i = Len(files)
          /\ \A k \in DOMAIN files : LogsOf(k) # {}
          /\ report.total = Len(files)
          /\ cfg.delete_empty_dirs =>
                /\ scans >= 1
                /\ \A d \in ScanDirs(fs) : ~HasEntries(fs, d) => d \in rmFailed
                /\ report.removed = Len(reapLog)
          /\ ~cfg.delete_empty_dirs => scans = 0
    /\ (Terminals # {} /\ events[Len(events)] = Failure) =>
          /\ \A n \in DOMAIN events : events[n] # Success
          /\ i = Len(files)
          /\ cfg.delete_empty_dirs
          /\ scans >= 1

\* a run that was aborted by a failing scan of remove_empty_dirs after all
\* files were processed: the error event and no report
C8_Witness ==
    /\ pc = "done"
    /\ events[Len(events)] = Failure
    /\ Cardinality(Terminals) = 1
    /\ moved > 0
    /\ \A n \in DOMAIN events : events[n] # Success

\* the guard of Plan or the guard of a scan of remove_empty_dirs holds
PlanOrScanEnabled == (pc = "next" /\ i < Len(files)) \/ pc = "reap"

\* The worker thread runs run() to its end: weak fairness of its steps. For
\* Plan and the scans of remove_empty_dirs the fairness condition is written
\* with their guards in place of ENABLED (in a state where the guard holds the
\* step can be taken).
FairSpec ==
    /\ Spec
    /\ WF_vars(Verify \/ Move \/ Report \/ Finish)
    /\ ([]<>~PlanOrScanEnabled \/ []<><<Plan \/ ReapPass \/ ReapScanFails>>_vars)

\* C8, with the end of the run: the invariant above holds throughout, and
\* every started run ends with its terminal event. A run that has been
\* started stays started, so "again and again no run is under way" says that
\* the run reaches its end.
C8_OneTerminalEventAndEnds ==
    /\ []C8_ExactlyOneTerminalEvent
    /\ []<>(~Running \/ pc = "done")

\* the positions in events of the progress signals, in order
RECURSIVE ProgressPositions(_)
ProgressPositions(n) ==
    IF n = 0 THEN <<>>
    ELSE IF events[n].type = "progress"
         THEN Append(ProgressPositions(n - 1), n)
         ELSE ProgressPositions(n - 1)

\* the number of list entries whose processing has begun
Begun == IF pc \in {"verify", "move"} THEN i + 1 ELSE i

\* C9: the progress signals emitted so far are (1, total), (2, total), ... in
\* this order, one for each file whose processing has begun; file k's
\* progress signal comes before its log line, its one log line comes before
\* the progress signal of file k + 1 and names entry k of the list; at the end
\* of the run there is one progress signal and one log line for every entry.
C9_ProgressInListOrder ==
    LET pos == ProgressPositions(Len(events))
    IN  /\ Running => Len(pos) = Begun
        /\ \A k \in DOMAIN pos :
              /\ events[pos[k]].cur = k
              /\ events[pos[k]].total = Len(files)
        /\ \A k \in DOMAIN files :
              /\ Cardinality(LogsOf(k)) <= 1
              /\ k <= i <=> LogsOf(k) # {}
              /\ \A n \in LogsOf(k) :
                    /\ events[n].name = Name(files[k])
                    /\ pos[k] < n
                    /\ k < Len(pos) => n < pos[k + 1]
        /\ pc \in {"reap", "emit", "done"} => Len(pos) = Len(files)

\* a run over three files has ended and has emitted (1,3), (2,3), (3,3), each
\* followed by the log line of its file
C9_Witness ==
    /\ pc = "done"
    /\ Len(files) = 3
    /\ Len(events) >= 7
    /\ \A k \in 1..3 :
          /\ events[2 * k - 1] =
                [type |-> "progress", cur |-> k, total |-> 3, kind |-> "", name |-> <<>>]
          /\ events[2 * k].type = "log" /\ events[2 * k].cur = k
    /\ files[1] # files[2] /\ Name(files[1]) # Name(files[3])

\* the date folders of the two dates of the model, written out
FolderOfDateA(folder_format) ==
    IF folder_format = "YYYY_MM_DD"
    THEN <<"2", "0", "2", "4", "_", "0", "3", "_", "0", "5">>
    ELSE <<"0", "5", "_", "0", "3", "_", "2", "0", "2", "4">>

FolderOfDateB(folder_format) ==
    IF folder_format = "YYYY_MM_DD"
    THEN <<"2", "0", "2", "5", "_", "1", "1", "_", "2", "7">>
    ELSE <<"2", "7", "_", "1", "1", "_", "2", "0", "2", "5">>

\* the extension folders of the two names of the model, written out
ExtOfName(name) == IF name = NameA THEN <<"T", "X", "T">> ELSE NoExtLabel

\* C10: the target directory of the file being processed is root, then the
\* date folder in the configured format (zero-padded), then the upper-cased
\* extension without its dot or the no-extension label exactly when
\* sort_by_extension is set, then the size label of the file's size exactly
\* when sort_by_size is set; every move goes into that directory under root.
C10_TargetDirComposition ==
    /\ pc \in {"verify", "move"} =>
          LET st == Stat(fs.tree[file_path].id)
              dt == IF has_birth /\ st.birth # NoDate THEN st.birth ELSE st.mtime
              date == IF dt = DateA THEN FolderOfDateA(cfg.folder_format)
                      ELSE FolderOfDateB(cfg.folder_format)
              ext == IF cfg.sort_by_extension THEN <<ExtOfName(Name(file_path))>>
                     ELSE <<>>
              size == IF cfg.sort_by_size THEN <<get_size_folder_name(st.size)>>
                      ELSE <<>>
          IN  /\ dest_dir = <<date>> \o ext \o size
              /\ IsDir(fs, dest_dir)
              /\ Parent(dest_file) = dest_dir
    /\ \A k \in DOMAIN moveLog :
          LET m == moveLog[k]
              st == Stat(m.id)
              dt == IF has_birth /\ st.birth # NoDate THEN st.birth ELSE st.mtime
          IN  /\ Len(m.dst) = 2 + (IF cfg.sort_by_extension THEN 1 ELSE 0)
                                + (IF cfg.sort_by_size THEN 1 ELSE 0)
              /\ m.dst[1] = IF dt = DateA THEN FolderOfDateA(cfg.folder_format)
                            ELSE FolderOfDateB(cfg.folder_format)
              /\ cfg.sort_by_extension => m.dst[2] = ExtOfName(Name(m.src))
              /\ cfg.sort_by_size =>
                    m.dst[Len(m.dst) - 1] = get_size_folder_name(st.size)

\* a.txt of 2024-03-05 lay in root, both groupings are off, and the run has
\* moved it to 2024_03_05/a.txt and reported 1 of 1
C10_Witness ==
    /\ pc = "done"
    /\ ~cfg.sort_by_extension /\ ~cfg.sort_by_size
    /\ cfg.folder_format = "YYYY_MM_DD"
    /\ ~has_birth
    /\ files = << <<NameA>> >>
    /\ Len(moveLog) = 1
    /\ moveLog[1].dst = << <<"2", "0", "2", "4", "_", "0", "3", "_", "0", "5">>, NameA >>
    /\ IsFile(fs, moveLog[1].dst) /\ ~Exists(fs, <<NameA>>)
    /\ report.moved = 1 /\ report.total = 1

(***************************************************************************)
(* get_size_folder_name on its own: two byte counts are drawn, and the     *)
(* function is applied to one after the other.                             *)
(***************************************************************************)

\* the multiples of a unit around which the bucket changes
SizeMultiples == {1, 2, 9, 10, 11, 19, 20, 99, 100, 101, 199, 200, 999, 1000}

\* the divisors of the units, in units of 1024 bytes: KB, MB, GB
SizeDivisors == {1, 1024, 1024 * 1024}

\* 2,400,000 bytes
SizeOfScenario == Bytes(2343, 768)

\* byte counts at, and one byte under, every multiple of every unit, and some
\* counts under one KB
SizeInputs ==
    {Bytes(m * qd, 0) : m \in SizeMultiples, qd \in SizeDivisors}
        \cup {Bytes(m * qd - 1, 1023) : m \in SizeMultiples, qd \in SizeDivisors}
        \cup {Bytes(0, 0), Bytes(0, 500), Bytes(0, 1023), SizeOfScenario}

SizeInit ==
    /\ has_birth = FALSE
    /\ include_sub = FALSE
    /\ cfg = [folder_format |-> "YYYY_MM_DD", sort_by_extension |-> FALSE,
              sort_by_size |-> TRUE, delete_empty_dirs |-> FALSE]
    /\ fs = [tree |-> TreeOf({}, has_birth, cfg), crowd |-> NoCrowd]
    /\ NotStarted
    /\ size_in \in SizeInputs \X SizeInputs
    /\ size_out = <<>>

\* size_name = get_size_folder_name(size) for the next byte count
SizeFolderCall ==
    /\ Len(size_out) < Len(size_in)
    /\ size_out' = Append(size_out, get_size_folder_name(size_in[Len(size_out) + 1]))
    /\ UNCHANGED <<fs, envVars, pc, i, loopVars, report, events, faults,
                   reapVars, histVars, size_in>>

SizeNext == SizeFolderCall

SizeSpec == SizeInit /\ [][SizeNext]_vars

\* the units by name and by divisor (in units of 1024 bytes)
SizeUnits ==
    {[name |-> <<"K", "B">>, qd |-> 1], [name |-> <<"M", "B">>, qd |-> 1024],
     [name |-> <<"G", "B">>, qd |-> 1024 * 1024]}

\* the position of the first space of a label
SpaceAt(l) == CHOOSE n \in 1..Len(l) : l[n] = " " /\ \A m \in 1..(n - 1) : l[m] # " "

\* a label with a number: its number and its unit
BucketOf(l) == DecValue(SubSeq(l, 1, SpaceAt(l) - 1))

UnitOf(l) == SubSeq(l, SpaceAt(l) + 1, Len(l))

\* the unit a size falls in: the largest one that is not more than the size
TierOf(size) ==
    CHOOSE u \in SizeUnits :
        /\ u.qd <= size[1]
        /\ \A w \in SizeUnits : w.qd <= size[1] => w.qd <= u.qd

\* at least one KB
HasTier(size) == size[1] >= 1

\* label l is what the rule of buckets gives for a size: under one KB the
\* fixed label; else the number v and the largest unit not above the size,
\* with v a multiple of 100 and v <= n < v + 100 when n >= 100, a multiple of
\* 10 and v <= n < v + 10 when 10 <= n < 100, and 1 when 1 <= n < 10
FollowsBucketRule(size, l) ==
    IF ~HasTier(size) THEN l = <<"<", " ", "1", " ", "K", "B">>
    ELSE LET u == TierOf(size)
             q == size[1]
             v == BucketOf(l)
         IN  /\ l = DecStr(v) \o <<" ">> \o u.name
             /\ IF q >= 100 * u.qd
                THEN v % 100 = 0 /\ v * u.qd <= q /\ q < (v + 100) * u.qd
                ELSE IF q >= 10 * u.qd
                THEN v % 10 = 0 /\ v * u.qd <= q /\ q < (v + 10) * u.qd
                ELSE v = 1

\* the calls made so far
SizeCalls == 1..Len(size_out)

\* C11 (as amended): every label get_size_folder_name returns follows the rule
\* of buckets: the under-1-KB label below 1024 bytes, else the largest unit
\* not above the size with the bucket floor(n/100)*100 for n >= 100,
\* floor(n/10)*10 for 10 <= n < 100 and 1 for 1 <= n < 10; by that rule
\* 2,400,000 bytes (2.29 MB) are labelled "1 MB".
C11_SizeLabelFollowsRule ==
    \A k \in SizeCalls :
        /\ FollowsBucketRule(size_in[k], size_out[k])
        /\ size_in[k] = SizeOfScenario => size_out[k] = <<"1", " ", "M", "B">>

\* 2,400,000 bytes have been labelled, and so has a size of 100 units or more
C11_Witness ==
    /\ Len(size_out) = 2
    /\ size_in[1] = SizeOfScenario
    /\ size_out[1] = <<"1", " ", "M", "B">>
    /\ size_in[2] = Bytes(1000 * 1024 - 1, 1023)
    /\ size_out[2] = <<"9", "0", "0", " ", "M", "B">>

\* C11 as stated: the same rule, with 2,400,000 bytes labelled "2 MB"
C11_SizeLabelAsStated ==
    \A k \in SizeCalls :
        /\ FollowsBucketRule(size_in[k], size_out[k])
        /\ size_in[k] = SizeOfScenario => size_out[k] = <<"2", " ", "M", "B">>

\* the order of byte counts
SizeLeq(a, b) == a[1] < b[1] \/ (a[1] = b[1] /\ a[2] <= b[2])

\* C12: within one unit a larger size never gets a smaller bucket, and a
\* bucket is never more than the size expressed in its unit.
C12_BucketsMonotonicAndBelowSize ==
    /\ \A k \in SizeCalls :
           HasTier(size_in[k]) =>
               BucketOf(size_out[k]) * TierOf(size_in[k]).qd <= size_in[k][1]
    /\ \A a, b \in SizeCalls :
           (/\ HasTier(size_in[a])
            /\ HasTier(size_in[b])
            /\ TierOf(size_in[a]) = TierOf(size_in[b])
            /\ SizeLeq(size_in[a], size_in[b]))
               => BucketOf(size_out[a]) <= BucketOf(size_out[b])

\* two sizes of one unit with the larger one in a larger bucket, and one byte
\* under the next bucket
C12_Witness ==
    /\ Len(size_out) = 2
    /\ size_in[1] = Bytes(19 * 1024, 0)
    /\ size_in[2] = Bytes(20 * 1024 - 1, 1023)
    /\ UnitOf(size_out[1]) = <<"M", "B">>
    /\ UnitOf(size_out[2]) = <<"M", "B">>
    /\ BucketOf(size_out[1]) = 10
    /\ BucketOf(size_out[2]) = 10

\* the log kinds of the three outcomes
SkipKinds == {"not_found", "in_place", "no_free_name"}

\* the files whose log line is of one of the kinds
FilesLogged(kinds) ==
    {k \in DOMAIN files : \E n \in LogsOf(k) : events[n].kind \in kinds}

\* C13: every file the loop has passed has exactly one log line, of exactly
\* one of the outcomes moved, skipped, errored, and a file it has not passed
\* has none; the counters count these outcomes, so that moved + skipped +
\* number of errors is the number of files passed, and the length of the list
\* once the loop has ended; the report shows the error block exactly when its
\* error count is above 0.
C13_OneOutcomePerFile ==
    /\ \A k \in DOMAIN files :
          /\ Cardinality(LogsOf(k)) = (IF k <= i THEN 1 ELSE 0)
          /\ \A n \in LogsOf(k) : events[n].kind \in {"moved", "error"} \cup SkipKinds
    /\ moved = Cardinality(FilesLogged({"moved"}))
    /\ skipped = Cardinality(FilesLogged(SkipKinds))
    /\ Len(errors) = Cardinality(FilesLogged({"error"}))
    /\ moved + skipped + Len(errors) = i
    /\ pc \in {"reap", "emit", "done"} =>
          /\ i = Len(files)
          /\ report.moved + report.skipped + report.errors = Len(files)
          /\ report.moved = moved /\ report.skipped = skipped
          /\ report.errors = Len(errors)
          /\ report.showErrors = (report.errors > 0)

\* a finished run of three files: one skipped, two moved, no error block
C13_Witness ==
    /\ pc = "done"
    /\ Len(files) = 3
    /\ moved = 2 /\ skipped = 1 /\ errors = <<>>
    /\ HasOutcome(2, "not_found")
    /\ ~report.showErrors /\ report.showSkipped

\* the paths that hold a file of the other program
ForeignPaths == {p \in DOMAIN fs.tree : fs.tree[p] = ForeignEntry}

\* C14: when another program occupies the chosen destination before the
\* pre-move check, the check sees it: the executor goes to the move only with
\* a destination that the check found free, which is a newly resolved, unused
\* name in the same target directory, different from the occupied one; no
\* move replaces an existing entry and the file of the other program stays
\* as it is.
C14_OccupiedDestinationIsRechecked ==
    /\ pc = "move" =>
          /\ ~Exists(fs, dest_file)
          /\ Parent(dest_file) = dest_dir
          /\ dest_file \notin ForeignPaths
    /\ pc \in {"verify", "move"} /\ attempts > 0 =>
          /\ ForeignPaths # {}
          /\ Parent(dest_file) = dest_dir
    /\ \A k \in DOMAIN moveLog : ~moveLog[k].existed
    /\ Cardinality(ForeignPaths) <= faults
    /\ \A p \in ForeignPaths : IsFile(fs, p)

\* the destination a.txt was taken by the other program after it was chosen;
\* the file went to a_001.txt next to it
C14_Witness ==
    /\ pc = "done"
    /\ \E p \in ForeignPaths :
          /\ Name(p) = NameA
          /\ \E k \in DOMAIN moveLog :
                /\ moveLog[k].dst = Join(Parent(p), Numbered(Stem(NameA), 1, Suffix(NameA)))
                /\ Name(moveLog[k].src) = NameA
                /\ IsFile(fs, moveLog[k].dst)

\* the loop is at a listed file that no longer exists
AtMissingFile == pc = "next" /\ i < Len(files) /\ ~Exists(fs, file_path)

\* C15: a listed file that no longer exists when its turn comes is skipped as
\* not found: it is counted as skipped and not as an error or a move, gets
\* the not-found log line after its progress event, and the step leaves the
\* file system exactly as it was: no directory is made, nothing is moved.
C15_MissingFileIsSkipped ==
    /\ [](\A k \in DOMAIN files :
             HasOutcome(k, "not_found") =>
                 /\ files[k] \in vanished
                 /\ k \notin Errored
                 /\ \A m \in DOMAIN moveLog : moveLog[m].idx # k
                 /\ skipped >= 1)
    /\ [][AtMissingFile =>
             /\ fs' = fs
             /\ skipped' = skipped + 1
             /\ errors' = errors
             /\ moved' = moved
             /\ moveLog' = moveLog
             /\ i' = i + 1
             /\ events' = events \o <<Progress(i + 1, Len(files)),
                                      Log("not_found", i + 1, Name(file_path))>>]_vars

\* the only listed file was deleted before the run: the run ends with one
\* skip and the tree it started with
C15_Witness ==
    /\ pc = "done"
    /\ Len(files) = 1
    /\ HasOutcome(1, "not_found")
    /\ skipped = 1 /\ moved = 0 /\ errors = <<>>
    /\ ~Exists(fs, files[1])
    /\ fs = fs0

\* the directories whose removal raised in the step
RaisedInStep == rmFailed' \ rmFailed

\* the empty directories below root
EmptyDirs(f) == {d \in ScanDirs(f) : ~HasEntries(f, d)}

\* C16: a removal that fails stays with its directory. The scan in which it
\* fails does not raise: it ends in the next scan or in the return, with no
\* error event; the directory that failed is still there and is not counted;
\* every other directory that was empty at its turn is removed and counted,
\* so that the only empty directories left are ones whose removal failed.
\* When nothing but removals failed in a run (faults counts the other
\* failures), the run ends with the success report, whose count is the number
\* of directories that are gone.
C16_RemovalFailureConfined ==
    /\ [][(pc = "reap" /\ rmFailed' # rmFailed) =>
             /\ pc' \in {"reap", "emit"}
             /\ \A n \in (Len(events) + 1)..Len(events') : events'[n] # Failure
             /\ \A d \in RaisedInStep : IsDir(fs', d) /\ ~HasEntries(fs', d)
             /\ EmptyDirs(fs') \subseteq rmFailed'
             /\ removed' - removed = Cardinality(DOMAIN fs.tree \ DOMAIN fs'.tree)
             /\ \A d \in DOMAIN fs.tree \ DOMAIN fs'.tree :
                   IsDir(fs, d) /\ d \notin RaisedInStep]_vars
    /\ [](/\ removed = Len(reapLog)
          /\ \A n \in DOMAIN reapLog : Gone(reapLog[n])
          /\ (pc = "done" /\ rmFailed # {} /\ faults = 0) =>
                /\ events[Len(events)] = Success
                /\ report.removed = Cardinality({d \in ScanDirs(fsMoved) : Gone(d)}))

\* the inner directory was removed, the removal of the outer one failed in
\* both scans: the run reports success and one removed directory
C16_Witness ==
    /\ pc = "done"
    /\ events[Len(events)] = Success
    /\ rmFailed = {Parent(SubDir)}
    /\ reapLog = <<SubDir>>
    /\ IsDir(fs, Parent(SubDir)) /\ ~HasEntries(fs, Parent(SubDir))
    /\ report.removed = 1 /\ report.showRemoved
    /\ scans = 2
    /\ faults = 0

\* the files that were given the error outcome because stat() raised inside
\* get_file_date
FailedOnDate == {n \in DOMAIN errors : errors[n].err = "stat"}

\* C17: get_file_date never fails towards its caller, so no file gets the
\* error outcome because of the resolution of its date; when the creation
\* time cannot be used, the date is the last-modified time.
C17_DateNeverFails ==
    /\ FailedOnDate = {}
    /\ \A k \in DOMAIN moveLog :
          LET st == Stat(moveLog[k].id)
          IN  (~has_birth \/ st.birth = NoDate) =>
                  moveLog[k].dst[1] = FolderName(st.mtime, cfg.folder_format)

\* the paths of the regular files of a tree (the files of the crowded
\* directory, which no run touches, are counted apart)
FilePaths(f) == {p \in DOMAIN f.tree : f.tree[p].kind = "file"}

\* the copies that failed moves left behind
CopyPaths(f) == {p \in FilePaths(f) : f.tree[p].copy}

\* the files whose move failed
FailedMoves == {n \in DOMAIN errors : errors[n].err = "move"}

\* the run is over
RunOver == pc = "done"

\* every move so far went into the date folder of its file, directly under root
MovesGoToDateFolders ==
    \A k \in DOMAIN moveLog :
        /\ Len(moveLog[k].dst) >= 2
        /\ moveLog[k].dst[1] =
               FolderName(get_file_date(Stat(moveLog[k].id), has_birth),
                          cfg.folder_format)
        /\ Name(moveLog[k].dst) # <<>>

DirsUnderRoot == Cardinality(ScanDirs(fsMoved))

\* C19: remove_empty_dirs terminates, also when removals fail in every scan:
\* a scan is followed by another one only if it removed a directory, so every
\* scan but the last has removed at least one of the directories under root,
\* none of them twice, and the number of scans is at most the number of
\* directories under root plus one; a scan that is followed by another one
\* leaves fewer directories than it found; the function is not running for
\* ever.
C19_ReaperTerminates ==
    /\ [](/\ scans <= DirsUnderRoot + 1
          /\ scans <= Len(reapLog) + 1
          /\ Reaping => scans <= Len(reapLog)
          /\ Len(reapLog) <= DirsUnderRoot
          /\ \A n, m \in DOMAIN reapLog : n # m => reapLog[n] # reapLog[m])
    /\ [][(Reaping /\ Reaping') =>
             /\ scans' = scans + 1
             /\ Len(reapLog') > Len(reapLog)
             /\ Cardinality(ScanDirs(fs')) < Cardinality(ScanDirs(fs))]_vars
    /\ []<>(~Reaping)

\* three scans over two nested directories: the second scan removed the outer
\* directory after the first one had removed the inner one, the third found
\* nothing to remove
C19_Witness ==
    /\ pc = "done"
    /\ events[Len(events)] = Success
    /\ scans = 3
    /\ DirsUnderRoot >= 2
    /\ reapLog = <<SubDir, Parent(SubDir)>>
    /\ rmFailed = {Parent(SubDir)}

=============================================================================
